---- MODULE Spec2Model ----
(***************************************************************************)
(* Model of the Quotex Signal API (src/main.py): the asset resolver        *)
(* get_high_payout_pairs, the candle analysis analyze_pair, and the two    *)
(* request handlers login and get_signal running as cooperative asyncio    *)
(* tasks that share the global bot_client.                                 *)
(*                                                                         *)
(* Prices are integers in units of 0.00001, so every float comparison of   *)
(* the source becomes an exact integer comparison after cross-multiplying. *)
(* Strings that the code edits (display names, asset codes, the formatted  *)
(* confidence) are sequences of one-character strings.                     *)
(***************************************************************************)
EXTENDS Integers, Sequences, FiniteSets, TLC

\* ------------------------------------------------------------------ bounds
MaxExtra == 1        \* candles fetched beyond the 30 the analysis needs
MaxSessions == 3     \* Quotex objects constructed in one run

\* ------------------------------------------------------- program constants
MinCandles == 30
SlowWindow == 20
FastWindow == 5
RsiSteps == 14
RsiEpsilon14 == 140          \* 0.0001 * 14 in price units: the epsilon average times 14
VolWindow == 10
VolEpsilon == 5              \* 0.00005 in price units
TrendWeight == 40
RsiWeight == 40
BaselineWeight == 20
SignalThreshold == 60
ConfidenceCap == 98
EarlyExitConfidence == 90
PayoutThreshold == 90
CatalogScanLimit == 100
TopPairs == 10

\* ---------------------------------------------------------- sequence tools
RECURSIVE SeqSum(_)
SeqSum(s) == IF s = <<>> THEN 0 ELSE Head(s) + SeqSum(Tail(s))

RECURSIVE SeqMax(_)
SeqMax(s) ==
  IF Len(s) = 1 THEN s[1]
  ELSE LET m == SeqMax(Tail(s)) IN IF Head(s) >= m THEN Head(s) ELSE m

RECURSIVE SeqMin(_)
SeqMin(s) ==
  IF Len(s) = 1 THEN s[1]
  ELSE LET m == SeqMin(Tail(s)) IN IF Head(s) <= m THEN Head(s) ELSE m

\* python s[-n:]
LastN(s, n) == IF Len(s) <= n THEN s ELSE SubSeq(s, Len(s) - n + 1, Len(s))

\* python s[:n]
FirstN(s, n) == IF Len(s) <= n THEN s ELSE SubSeq(s, 1, n)

Abs(x) == IF x < 0 THEN -x ELSE x

Min2(a, b) == IF a <= b THEN a ELSE b


\* ------------------------------------------------ analyze_pair: indicators
\* ma5 > ma20, i.e. sum(closes[-5:])/5 > sum(closes[-20:])/20
TrendUp(closes) ==
  SlowWindow * SeqSum(LastN(closes, FastWindow))
    > FastWindow * SeqSum(LastN(closes, SlowWindow))

\* the 14 close-to-close differences closes[i+1] - closes[i], i in range(-15, -1)
RsiDiffs(closes) ==
  LET n == Len(closes)
  IN [k \in 1..RsiSteps |-> closes[n - RsiSteps + k] - closes[n - RsiSteps + k - 1]]

RECURSIVE SumGains(_)
SumGains(ds) ==
  IF ds = <<>> THEN 0
  ELSE (IF Head(ds) >= 0 THEN Head(ds) ELSE 0) + SumGains(Tail(ds))

RECURSIVE SumLosses(_)
SumLosses(ds) ==
  IF ds = <<>> THEN 0
  ELSE (IF Head(ds) < 0 THEN Abs(Head(ds)) ELSE 0) + SumLosses(Tail(ds))

\* 14 * avg_gain: sum(gains) when some difference is >= 0, else the epsilon
AvgGain14(closes) ==
  LET ds == RsiDiffs(closes)
  IN IF \E k \in 1..RsiSteps : ds[k] >= 0 THEN SumGains(ds) ELSE RsiEpsilon14

\* 14 * avg_loss: sum(losses) when some difference is < 0, else the epsilon
AvgLoss14(closes) ==
  LET ds == RsiDiffs(closes)
  IN IF \E k \in 1..RsiSteps : ds[k] < 0 THEN SumLosses(ds) ELSE RsiEpsilon14

\* rsi < 40  <=>  100/(1+rs) > 60  <=>  rs < 2/3  <=>  3*avg_gain < 2*avg_loss
RsiOversold(closes) == 3 * AvgGain14(closes) < 2 * AvgLoss14(closes)

\* rsi > 60  <=>  100/(1+rs) < 40  <=>  rs > 3/2  <=>  2*avg_gain > 3*avg_loss
RsiOverbought(closes) == 2 * AvgGain14(closes) > 3 * AvgLoss14(closes)

\* (max(closes[-10:]) - min(closes[-10:])) < 0.00005
VolatilityFlat(closes) ==
  SeqMax(LastN(closes, VolWindow)) - SeqMin(LastN(closes, VolWindow)) < VolEpsilon

\* ma20 == 0: the division of line 129 raises ZeroDivisionError
BaselineZero(closes) == SeqSum(LastN(closes, SlowWindow)) = 0

\* abs(current_price - ma20) / ma20 < 0.002, for ma20 # 0
NearBaseline(closes) ==
  LET s20 == SeqSum(LastN(closes, SlowWindow))
      cur == closes[Len(closes)]
  IN IF s20 < 0 THEN TRUE
     ELSE 1000 * Abs(SlowWindow * cur - s20) < 2 * s20

\* --------------------------------------------------- analyze_pair: scoring
TrendTerm(closes) == IF TrendUp(closes) THEN TrendWeight ELSE -TrendWeight

MomentumTerm(closes) ==
  IF RsiOversold(closes) THEN RsiWeight
  ELSE IF RsiOverbought(closes) THEN -RsiWeight
  ELSE 0

\* score += 20 if score > 0 else -20
BaselineTerm(score) == IF score > 0 THEN BaselineWeight ELSE -BaselineWeight

Confidence_uncapped(score) == Abs(score)

\* min(score, 98) for a CALL, min(abs(score), 98) for a PUT
Confidence(score) == Min2(Abs(score), ConfidenceCap)

DigitChar == <<"0", "1", "2", "3", "4", "5", "6", "7", "8", "9">>

RECURSIVE Digits(_)
Digits(n) ==
  IF n < 10 THEN <<DigitChar[n + 1]>>
  ELSE Digits(n \div 10) \o <<DigitChar[(n % 10) + 1]>>

\* f"{confidence}%"
FormatConfidence(n) == Digits(n) \o <<"%">>

NoSignal == [pair |-> <<>>, direction |-> "NONE", confidence |-> <<>>]

\* The scoring of one candle series, with the intermediate scores kept:
\* pre is the score after the trend and RSI checks, score the final one.
ScoreTrace(closes) ==
  IF Len(closes) < MinCandles THEN
    [status |-> "short", near |-> FALSE, pre |-> 0, score |-> 0]
  ELSE IF VolatilityFlat(closes) THEN
    [status |-> "flat", near |-> FALSE, pre |-> 0, score |-> 0]
  ELSE
    LET pre == TrendTerm(closes) + MomentumTerm(closes)
    IN IF BaselineZero(closes) THEN
         [status |-> "raised", near |-> FALSE, pre |-> pre, score |-> pre]
       ELSE IF NearBaseline(closes) THEN
         [status |-> "scored", near |-> TRUE, pre |-> pre,
          score |-> pre + BaselineTerm(pre)]
       ELSE
         [status |-> "scored", near |-> FALSE, pre |-> pre, score |-> pre]

\* Compile Signal (lines 133-152); support, resistance and the logic text
\* are part of the returned dict but decide nothing and are left out.
CompileSignal(score, display_name) ==
  IF score >= SignalThreshold THEN
    [pair |-> display_name, direction |-> "CALL",
     confidence |-> FormatConfidence(Confidence(score))]
  ELSE IF score <= -SignalThreshold THEN
    [pair |-> display_name, direction |-> "PUT",
     confidence |-> FormatConfidence(Confidence(score))]
  ELSE NoSignal

\* What the try block of analyze_pair does with the outcome of get_candles:
\* fetch.raises is an exception out of get_candles or process_candles.
\* [raised |-> TRUE] stands for an exception leaving the try block.
TryAnalyze(fetch, display_name) ==
  IF fetch.raises THEN [raised |-> TRUE, signal |-> NoSignal]
  ELSE LET t == ScoreTrace(fetch.closes)
       IN IF t.status = "raised" THEN [raised |-> TRUE, signal |-> NoSignal]
          ELSE IF t.status = "scored"
            THEN [raised |-> FALSE, signal |-> CompileSignal(t.score, display_name)]
          ELSE [raised |-> FALSE, signal |-> NoSignal]

HandleAnalyzeError_propagate(r) == r

\* except Exception as e: print(...); return None
HandleAnalyzeError(r) == [raised |-> FALSE, signal |-> NoSignal]

\* analyze_pair once get_candles has completed
AnalyzePair(fetch, display_name) ==
  LET r == TryAnalyze(fetch, display_name)
  IN IF r.raised THEN HandleAnalyzeError(r) ELSE r

\* ------------------------------------------------------- candle inputs
\* A candle series as the connector may return it: `lead` closes at level a,
\* then a close at 100000 followed by 13 steps of d and a last step of d + j.
RECURSIVE Ramp(_, _, _)
Ramp(start, d, n) == IF n = 0 THEN <<>> ELSE <<start>> \o Ramp(start + d, d, n - 1)

Series(lead, a, d, j) ==
  [k \in 1..lead |-> a] \o Ramp(100000, d, 14) \o <<100000 + 14 * d + j>>

Levels == {99000, 100000, 101000}
Slopes == {-20, -1, 0, 1, 20}
Jumps == {-400, -300, -3, 0, 3, 300, 400}
Leads == 14..(15 + MaxExtra)

\* closes that swing around zero: the 20-candle mean is exactly 0
ZeroMeanSeries == [k \in 1..MinCandles |-> IF k % 2 = 0 THEN 100 ELSE -100]

CandleInputs ==
  {<<>>, ZeroMeanSeries}
    \cup {Series(l, a, d, j) : l \in Leads, a \in Levels, d \in Slopes, j \in Jumps}


\* ------------------------------------------------ get_high_payout_pairs
RECURSIVE ReplaceAll(_, _)
\* str.replace(pat, '')
ReplaceAll(s, pat) ==
  IF Len(s) < Len(pat) THEN s
  ELSE IF SubSeq(s, 1, Len(pat)) = pat
    THEN ReplaceAll(SubSeq(s, Len(pat) + 1, Len(s)), pat)
  ELSE <<Head(s)>> \o ReplaceAll(Tail(s), pat)

RECURSIVE StripLeft(_)
StripLeft(s) == IF s # <<>> /\ Head(s) = " " THEN StripLeft(Tail(s)) ELSE s

RECURSIVE StripRight(_)
StripRight(s) ==
  IF s # <<>> /\ s[Len(s)] = " " THEN StripRight(SubSeq(s, 1, Len(s) - 1)) ELSE s

\* str.strip()
Strip(s) == StripRight(StripLeft(s))

LowerCase == <<"a", "b", "c", "d", "e", "f", "g", "h", "i", "j", "k", "l", "m",
               "n", "o", "p", "q", "r", "s", "t", "u", "v", "w", "x", "y", "z">>
UpperCase == <<"A", "B", "C", "D", "E", "F", "G", "H", "I", "J", "K", "L", "M",
               "N", "O", "P", "Q", "R", "S", "T", "U", "V", "W", "X", "Y", "Z">>

UpperChar(c) ==
  IF \E i \in 1..Len(LowerCase) : LowerCase[i] = c
  THEN UpperCase[CHOOSE i \in 1..Len(LowerCase) : LowerCase[i] = c]
  ELSE c

\* str.upper()
Upper(s) == [i \in 1..Len(s) |-> UpperChar(s[i])]

\* needle in hay
Contains(hay, needle) ==
  \E i \in 0..(Len(hay) - Len(needle)) : SubSeq(hay, i + 1, i + Len(needle)) = needle

\* name.replace('(OTC)','').replace('(otc)','').strip().replace('/','').replace(' ','').upper()
DisplayClean(name) ==
  Upper(ReplaceAll(ReplaceAll(Strip(
    ReplaceAll(ReplaceAll(name, <<"(", "O", "T", "C", ")">>),
               <<"(", "o", "t", "c", ")">>)), <<"/">>), <<" ">>))

\* str(asset_code).replace('_otc','').replace('_OTC','').upper()
AssetCodeClean(code) ==
  Upper(ReplaceAll(ReplaceAll(code, <<"_", "o", "t", "c">>), <<"_", "O", "T", "C">>))

\* display_clean in asset_code_clean or asset_code_clean in display_clean
Matches(name, code) ==
  \/ Contains(AssetCodeClean(code), DisplayClean(name))
  \/ Contains(DisplayClean(name), AssetCodeClean(code))

Eligible_low(e) == e.shape = "ok" /\ e.open /\ e.payout >= 80

\* One payout-metadata entry passes lines 36-46: asset_data is a dict, it is
\* open, and its 1M payout is >= 90.  shape "notdict": asset_data is no dict;
\* "profit_notdict": payout counts as 0; "profit_bad": float() raises and the
\* entry is skipped.
Eligible(e) ==
  /\ e.shape \in {"ok", "profit_notdict"}
  /\ e.open
  /\ (IF e.shape = "ok" THEN e.payout ELSE 0) >= PayoutThreshold

RECURSIVE HighPayoutNames(_)
\* lines 34-46, in the iteration order of payment_data.items()
HighPayoutNames(payment_data) ==
  IF payment_data = <<>> THEN <<>>
  ELSE LET e == Head(payment_data)
       IN (IF Eligible(e) THEN <<[name |-> e.name, payout |-> e.payout]>> ELSE <<>>)
            \o HighPayoutNames(Tail(payment_data))

\* lines 53-62: the first of the first 100 catalog codes that matches, if any
FirstMatch(pair_info, all_assets) ==
  LET codes == FirstN(all_assets, CatalogScanLimit)
      hits == {i \in 1..Len(codes) : Matches(pair_info.name, codes[i])}
  IN IF hits = {} THEN <<>>
     ELSE LET i == CHOOSE i \in hits : \A k \in hits : i <= k
          IN <<[asset_code |-> codes[i], payout |-> pair_info.payout,
                display_name |-> pair_info.name]>>

RECURSIVE PairsWithCodes(_, _)
\* lines 49-62
PairsWithCodes(high_payout_names, all_assets) ==
  IF high_payout_names = <<>> THEN <<>>
  ELSE FirstMatch(Head(high_payout_names), all_assets)
         \o PairsWithCodes(Tail(high_payout_names), all_assets)

RECURSIVE InsertByPayout(_, _)
\* x, which preceded every element of `sorted` in the unsorted list, goes
\* before the first element whose payout is not larger (the sort is stable)
InsertByPayout(x, sorted) ==
  IF sorted = <<>> THEN <<x>>
  ELSE IF Head(sorted).payout <= x.payout THEN <<x>> \o sorted
  ELSE <<Head(sorted)>> \o InsertByPayout(x, Tail(sorted))

RECURSIVE SortByPayout(_)
\* pairs_with_codes.sort(key=lambda x: x['payout'], reverse=True)
SortByPayout(s) ==
  IF s = <<>> THEN <<>> ELSE InsertByPayout(Head(s), SortByPayout(Tail(s)))

\* get_high_payout_pairs from line 31 on: high_payout_names is the filter of
\* payment_data (empty when payment_data is), all_assets the catalog's keys
RankedPairs(high_payout_names, all_assets) ==
  IF high_payout_names = <<>> \/ all_assets = <<>> THEN <<>>
  ELSE FirstN(SortByPayout(PairsWithCodes(high_payout_names, all_assets)), TopPairs)

\* ------------------------------------------------- metadata and catalog inputs
NameEurUsdOtc == <<"E", "U", "R", "/", "U", "S", "D", " ", "(", "O", "T", "C", ")">>
NameUsdJpy == <<"u", "s", "d", "/", "j", "p", "y">>
CodeEurUsdOtc == <<"E", "U", "R", "U", "S", "D", "_", "o", "t", "c">>
CodeUsdJpy == <<"U", "S", "D", "J", "P", "Y">>
CodeGbpUsdOtc == <<"G", "B", "P", "U", "S", "D", "_", "O", "T", "C">>

DisplayNames == {NameEurUsdOtc, NameUsdJpy}

EntryVariants ==
  { [shape |-> "ok", open |-> TRUE, payout |-> 85],
    [shape |-> "ok", open |-> TRUE, payout |-> 90],
    [shape |-> "ok", open |-> TRUE, payout |-> 95],
    [shape |-> "ok", open |-> FALSE, payout |-> 95],
    [shape |-> "notdict", open |-> TRUE, payout |-> 95],
    [shape |-> "profit_notdict", open |-> TRUE, payout |-> 95],
    [shape |-> "profit_bad", open |-> TRUE, payout |-> 95] }

Entry(n, v) == [name |-> n, shape |-> v.shape, open |-> v.open, payout |-> v.payout]

\* the payout mappings the connector may return: any of the display names
\* as keys, in any order, each with any of the entry variants
NameSeqs ==
  UNION { {f \in [1..n -> DisplayNames] : \A i, k \in 1..n : i # k => f[i] # f[k]} :
          n \in 0..Cardinality(DisplayNames) }

PaymentInputs ==
  UNION { { [k \in 1..Len(ns) |-> Entry(ns[k], vs[k])] :
            vs \in [1..Len(ns) -> EntryVariants] } : ns \in NameSeqs }

CatalogInputs ==
  { <<>>,
    <<CodeGbpUsdOtc, CodeEurUsdOtc>>,
    <<CodeGbpUsdOtc, CodeUsdJpy, CodeEurUsdOtc>> }


\* the candle outcomes the request handlers are run against: an exception,
\* an empty list, too few candles, a flat series, a zero mean, and one series
\* per score the analysis can reach
SignalFetches ==
  { [raises |-> TRUE, closes |-> <<>>],
    [raises |-> FALSE, closes |-> <<>>],
    [raises |-> FALSE, closes |-> ZeroMeanSeries],
    [raises |-> FALSE, closes |-> Series(14, 99000, -20, 0)],
    [raises |-> FALSE, closes |-> Series(15, 99000, 0, 0)],
    [raises |-> FALSE, closes |-> Series(15, 99000, 20, -300)],
    [raises |-> FALSE, closes |-> Series(15, 101000, 20, 300)],
    [raises |-> FALSE, closes |-> Series(15, 99000, -20, 0)] }

\* ------------------------------------------------------------------ state
VARIABLES
  bot_client,   \* the global: 0 is None, s > 0 the s-th Quotex object
  session,      \* session[s]: what has happened to the s-th Quotex object
  ltask,        \* the /login requests in flight
  gtask,        \* the /get_signal requests
  authFailed,   \* a /login has ended in failure and none has run since
  an            \* the last stand-alone run of the analysis

vars == <<bot_client, session, ltask, gtask, authFailed, an>>

Sessions == 1..MaxSessions
\* the requests in flight: two /login requests can overlap each other and
\* one /get_signal request (get_signal requests only read bot_client, so
\* they do not affect one another)
LoginTasks == {"loginA", "loginB"}
SignalTasks == {"sig"}

\* Quotex(...) constructs the next object
Constructed == {s \in Sessions : session[s] # "unborn"}
NewSession == Cardinality(Constructed) + 1
LiveSessions == {s \in Sessions : session[s] = "live"}

IdleLogin == [pc |-> "idle", closing |-> 0, mine |-> 0]

IdleSignal ==
  [pc |-> "idle", hp |-> <<>>, pairs |-> <<>>, idx |-> 0,
   best_signal |-> NoSignal, highest_confidence |-> 0,
   outcome |-> "none", data |-> NoSignal,
   \* history of the call
   noSessionAtStart |-> FALSE, noEligible |-> FALSE, ranked |-> FALSE,
   fetched |-> {}, results |-> <<>>, sess |-> 0, mixed |-> FALSE,
   lostSession |-> FALSE, errored |-> {}]

NoAnalysis ==
  [closes |-> <<>>, trace |-> ScoreTrace(<<>>), signal |-> NoSignal]

Init ==
  /\ bot_client = 0
  /\ session = [s \in Sessions |-> "unborn"]
  /\ ltask = [l \in LoginTasks |-> IdleLogin]
  /\ gtask = [g \in SignalTasks |-> IdleSignal]
  /\ authFailed = FALSE
  /\ an = NoAnalysis


\* ------------------------------------------------------------------ login
OthersIdle(l) == \A k \in LoginTasks \ {l} : ltask[k].pc = "idle"

\* lines 175-176: every exception of the try block, the HTTPException of
\* line 174 included, is answered with status 500
LoginFails(l) ==
  /\ ltask' = [ltask EXCEPT ![l] = IdleLogin]
  /\ authFailed' = OthersIdle(l)

\* line 166-167: bot_client = Quotex(...); bot_client.connect() is called
Construct(l) ==
  LET s == NewSession
  IN /\ bot_client' = s
     /\ ltask' = [ltask EXCEPT ![l] = [@ EXCEPT !.pc = "await_connect", !.mine = s]]

\* a /login request arrives and runs to its first await (lines 162-167)
Login_Start(l) ==
  /\ ltask[l].pc = "idle"
  /\ Cardinality(Constructed)
       + Cardinality({k \in LoginTasks : ltask[k].pc = "await_close"}) < MaxSessions
  /\ authFailed' = FALSE
  /\ IF bot_client # 0
     THEN /\ ltask' = [ltask EXCEPT ![l] =
                 [pc |-> "await_close", closing |-> bot_client, mine |-> 0]]
          /\ UNCHANGED <<bot_client, session>>
     ELSE /\ Construct(l)
          /\ session' = [session EXCEPT ![NewSession] = "connecting"]
  /\ UNCHANGED <<gtask, an>>

\* await bot_client.close() completes (line 164), then lines 166-167
Login_CloseDone(l) ==
  /\ ltask[l].pc = "await_close"
  /\ \E raised \in BOOLEAN :
       IF raised
       THEN /\ LoginFails(l)
            /\ UNCHANGED <<bot_client, session>>
       ELSE /\ Construct(l)
            /\ session' = [session EXCEPT ![ltask[l].closing] = "down",
                                          ![NewSession] = "connecting"]
            /\ UNCHANGED authFailed
  /\ UNCHANGED <<gtask, an>>

\* await bot_client.connect() completes (line 167), then lines 169-176.
\* A session is "down" once close() has returned for it or its connect()
\* has failed; one that was closed while it connected does not come up.
Login_ConnectDone(l) ==
  /\ ltask[l].pc = "await_connect"
  /\ LET s == ltask[l].mine
     IN \E res \in {"ok", "rejected", "raise"} :
          /\ session[s] = "down" => res # "ok"
          /\ CASE res = "ok" ->
                    /\ session' = [session EXCEPT ![s] = "live"]
                    /\ UNCHANGED bot_client
                    /\ IF bot_client = 0
                       THEN LoginFails(l)   \* None.set_account_mode: AttributeError
                       ELSE /\ ltask' = [ltask EXCEPT ![l] = IdleLogin]
                            /\ authFailed' = FALSE
               [] res = "rejected" ->
                    /\ session' = [session EXCEPT ![s] = "down"]
                    /\ bot_client' = 0
                    /\ LoginFails(l)
               [] res = "raise" ->
                    /\ session' = [session EXCEPT ![s] = "down"]
                    /\ UNCHANGED bot_client
                    /\ LoginFails(l)
  /\ UNCHANGED <<gtask, an>>

\* ------------------------------------------------------------- get_signal
DigitValue(c) == CHOOSE d \in 0..9 : DigitChar[d + 1] = c

RECURSIVE ParseInt(_)
ParseInt(s) ==
  IF s = <<>> THEN 0 ELSE 10 * ParseInt(SubSeq(s, 1, Len(s) - 1)) + DigitValue(s[Len(s)])

\* int(signal['confidence'].replace('%', ''))
ParseConfidence(s) == ParseInt(ReplaceAll(s, <<"%">>))

NotLoggedIn_never(client) == FALSE

\* line 181: if not bot_client
NotLoggedIn(client) == client = 0

\* line 25: if not bot_client
NoClient(client) == client = 0

Better_orEqual(conf_int, highest_confidence) == conf_int >= highest_confidence

\* line 197: if conf_int > highest_confidence
Better(conf_int, highest_confidence) == conf_int > highest_confidence

EarlyExit_never(highest_confidence) == highest_confidence > 100

\* line 202: if highest_confidence >= 90: break
EarlyExit(highest_confidence) == highest_confidence >= EarlyExitConfidence

\* an exception that leaves the handler: the framework answers 500
Abort(t) == [t EXCEPT !.pc = "done", !.outcome = "internal_error"]

\* lines 208-211
Finish(t) ==
  [t EXCEPT !.pc = "done",
            !.outcome = IF t.best_signal # NoSignal THEN "success" ELSE "waiting",
            !.data = t.best_signal]

\* lines 195-206 for the signal of candidate t.idx
AfterAnalyze(t, signal) ==
  LET t1 == [t EXCEPT !.results = Append(@, signal)]
      t2 == IF signal # NoSignal
               /\ Better(ParseConfidence(signal.confidence), t1.highest_confidence)
            THEN [t1 EXCEPT !.highest_confidence = ParseConfidence(signal.confidence),
                            !.best_signal = signal]
            ELSE t1
  IN IF signal # NoSignal /\ EarlyExit(t2.highest_confidence)
     THEN Finish(t2)
     ELSE [t2 EXCEPT !.pc = "sleeping"]

\* line 193 up to the await of line 71: with bot_client None the attribute
\* lookup raises inside the try block, otherwise get_candles is issued
StartAnalyze(t, client) ==
  IF client = 0
  THEN LET r == AnalyzePair([raises |-> TRUE, closes |-> <<>>],
                            t.pairs[t.idx].display_name)
           t1 == [t EXCEPT !.lostSession = TRUE, !.errored = @ \cup {t.idx}]
       IN IF r.raised THEN Abort(t1) ELSE AfterAnalyze(t1, r.signal)
  ELSE [t EXCEPT !.pc = "await_candles",
                 !.fetched = @ \cup {t.idx},
                 !.mixed = (@ \/ client # t.sess)]

\* some open entry of the metadata has a 1M payout of at least 90
HasEligibleEntry(payment_data) ==
  \E k \in 1..Len(payment_data) :
    /\ payment_data[k].shape = "ok"
    /\ payment_data[k].open
    /\ payment_data[k].payout >= 90

\* a /get_signal request arrives and runs to its first await: lines 181-184
\* and 25-29.  The filter of lines 34-46 reads only payment_data, so its
\* result is kept in place of payment_data.
GetSignal_Start(g) ==
  /\ gtask[g].pc = "idle"
  /\ LET t == [gtask[g] EXCEPT !.noSessionAtStart = (bot_client = 0)]
     IN IF NotLoggedIn(bot_client)
        THEN gtask' = [gtask EXCEPT ![g] =
               [t EXCEPT !.pc = "done", !.outcome = "not_authenticated"]]
        ELSE IF NoClient(bot_client)
        THEN gtask' = [gtask EXCEPT ![g] =
               [t EXCEPT !.pc = "done", !.outcome = "error"]]
        ELSE \E raised \in BOOLEAN :
               IF raised
               THEN gtask' = [gtask EXCEPT ![g] =
                      Abort([t EXCEPT !.sess = bot_client])]
               ELSE \E payment_data \in PaymentInputs :
                      gtask' = [gtask EXCEPT ![g] =
                        [t EXCEPT !.pc = "await_assets",
                                  !.hp = HighPayoutNames(payment_data),
                                  !.noEligible = ~HasEligibleEntry(payment_data),
                                  !.sess = bot_client]]
  /\ UNCHANGED <<bot_client, session, ltask, authFailed, an>>

\* await bot_client.get_all_assets() completes: lines 29-66, 185-193
GetSignal_AssetsDone(g) ==
  /\ gtask[g].pc = "await_assets"
  /\ \E raised \in BOOLEAN :
       IF raised
       THEN gtask' = [gtask EXCEPT ![g] = Abort(gtask[g])]
       ELSE \E all_assets \in CatalogInputs :
              LET pairs == RankedPairs(gtask[g].hp, all_assets)
                  t == [gtask[g] EXCEPT !.pairs = pairs, !.ranked = TRUE]
              IN IF pairs = <<>>
                 THEN gtask' = [gtask EXCEPT ![g] =
                        [t EXCEPT !.pc = "done", !.outcome = "error"]]
                 ELSE gtask' = [gtask EXCEPT ![g] =
                        StartAnalyze([t EXCEPT !.idx = 1], bot_client)]
  /\ UNCHANGED <<bot_client, session, ltask, authFailed, an>>

\* await bot_client.get_candles(...) completes: lines 71-156, 195-211
GetSignal_CandlesDone(g) ==
  /\ gtask[g].pc = "await_candles"
  /\ \E fetch \in SignalFetches :
       LET name == gtask[g].pairs[gtask[g].idx].display_name
           r == AnalyzePair(fetch, name)
           t == [gtask[g] EXCEPT !.errored =
                   IF TryAnalyze(fetch, name).raised THEN @ \cup {gtask[g].idx} ELSE @]
       IN gtask' = [gtask EXCEPT ![g] =
            IF r.raised THEN Abort(t) ELSE AfterAnalyze(t, r.signal)]
  /\ UNCHANGED <<bot_client, session, ltask, authFailed, an>>

\* await asyncio.sleep(0.5) completes: the next iteration of line 192, or
\* lines 208-211 when the list is exhausted
GetSignal_SleepDone(g) ==
  /\ gtask[g].pc = "sleeping"
  /\ LET t == gtask[g]
     IN gtask' = [gtask EXCEPT ![g] =
          IF t.idx < Len(t.pairs)
          THEN StartAnalyze([t EXCEPT !.idx = t.idx + 1], bot_client)
          ELSE Finish(t)]
  /\ UNCHANGED <<bot_client, session, ltask, authFailed, an>>

Next ==
  \/ \E l \in LoginTasks : Login_Start(l)
  \/ \E l \in LoginTasks : Login_CloseDone(l)
  \/ \E l \in LoginTasks : Login_ConnectDone(l)
  \/ \E g \in SignalTasks : GetSignal_Start(g)
  \/ \E g \in SignalTasks : GetSignal_AssetsDone(g)
  \/ \E g \in SignalTasks : GetSignal_CandlesDone(g)
  \/ \E g \in SignalTasks : GetSignal_SleepDone(g)

Spec == Init /\ [][Next]_vars

\* ------------------------------------------- the analysis run on its own
\* analyze_pair applied to one candle series, for every series of CandleInputs
Analyze ==
  /\ \E closes \in CandleInputs :
       an' = [closes |-> closes,
              trace |-> ScoreTrace(closes),
              signal |-> AnalyzePair([raises |-> FALSE, closes |-> closes],
                                     NameUsdJpy).signal]
  /\ UNCHANGED <<bot_client, session, ltask, gtask, authFailed>>

NextAnalyze == Analyze

\* ------------------------------- get_signal against one /login at a time
FirstLogin == CHOOSE l \in LoginTasks : TRUE

NextOneLogin ==
  \/ Login_Start(FirstLogin)
  \/ Login_CloseDone(FirstLogin)
  \/ Login_ConnectDone(FirstLogin)
  \/ \E g \in SignalTasks : GetSignal_Start(g)
  \/ \E g \in SignalTasks : GetSignal_AssetsDone(g)
  \/ \E g \in SignalTasks : GetSignal_CandlesDone(g)
  \/ \E g \in SignalTasks : GetSignal_SleepDone(g)

SpecOneLogin == Init /\ [][NextOneLogin]_vars

SpecAnalyze == Init /\ [][NextAnalyze]_vars


\* ================================================================ claims
Conf(signal) == ParseConfidence(signal.confidence)
Signals(t) == {k \in 1..Len(t.results) : t.results[k] # NoSignal}

\* C1: within one get_signal call, once the analysis of candidate k has
\* yielded a signal of confidence >= 90, the call is over: it returned that
\* signal with status success and issued no candle fetch for a candidate
\* ranked after k.
C1_EarlyExit ==
  \A g \in SignalTasks :
    \A k \in Signals(gtask[g]) :
      Conf(gtask[g].results[k]) >= 90 =>
        /\ gtask[g].pc = "done"
        /\ gtask[g].outcome = "success"
        /\ gtask[g].data = gtask[g].results[k]
        /\ \A m \in gtask[g].fetched : m <= k

C1_Witness ==
  \E g \in SignalTasks :
    /\ Len(gtask[g].pairs) = 2
    /\ Len(gtask[g].results) = 1
    /\ Conf(gtask[g].results[1]) = 98
    /\ gtask[g].fetched = {1}
    /\ gtask[g].pc = "done"

C4_Original ==
  /\ Cardinality(LiveSessions) <= 1
  /\ \A s \in LiveSessions : bot_client = s

\* C5: a signal produced by the scoring has a confidence in 60..98.
C5_ConfidenceRange ==
  an.signal # NoSignal =>
    /\ an.trace.status = "scored"
    /\ Conf(an.signal) >= 60
    /\ Conf(an.signal) <= 98

C5_Witness ==
  /\ an.signal # NoSignal
  /\ Abs(an.trace.score) = 100
  /\ Conf(an.signal) = 98

\* C6: a candidate whose candle fetch or analysis raised counts as having no
\* signal; the exception does not leave get_signal, and the call ends only
\* after every candidate was analysed or after an early exit.
C6_LocalRecovery ==
  \A g \in SignalTasks :
    LET t == gtask[g]
    IN /\ t.ranked => t.outcome # "internal_error"
       /\ \A k \in t.errored : k <= Len(t.results) /\ t.results[k] = NoSignal
       /\ (t.ranked /\ t.pc = "done" /\ t.pairs # <<>>) =>
            \/ Len(t.results) = Len(t.pairs)
            \/ /\ t.results # <<>>
               /\ t.results[Len(t.results)] # NoSignal
               /\ Conf(t.results[Len(t.results)]) >= 90

C6_Witness ==
  \E g \in SignalTasks :
    /\ 1 \in gtask[g].errored
    /\ 1 \in gtask[g].fetched
    /\ Len(gtask[g].results) = 2
    /\ gtask[g].results[2] # NoSignal
    /\ gtask[g].outcome = "success"

\* C7 as claimed: after a /login that ended in failure, with no /login
\* running at that moment or started since, bot_client is None.
C7_Original == authFailed => bot_client = 0

\* C8 as claimed: a score of exactly 0 after the trend and RSI checks stays 0
\* when the price is within 0.2% of the 20-candle mean.
C8_Original ==
  (an.trace.status = "scored" /\ an.trace.pre = 0 /\ an.trace.near) =>
    an.trace.score = 0

\* C9 as claimed: a get_signal call that found bot_client None at one of its
\* analysis steps ends with not-authenticated, and the external calls of one
\* get_signal call are all made on the same session.
C9_Original ==
  \A g \in SignalTasks :
    /\ (gtask[g].lostSession /\ gtask[g].pc = "done") =>
         gtask[g].outcome = "not_authenticated"
    /\ ~gtask[g].mixed

\* C10: the candidates are ranked by payout, highest first; a call that ends
\* after some candidate produced a signal returns success, and the signal it
\* returns is the one of highest confidence among those produced, the
\* earliest-ranked one among equals.
C10_BestSignal ==
  \A g \in SignalTasks :
    LET t == gtask[g]
    IN /\ \A i, j \in 1..Len(t.pairs) : i < j => t.pairs[i].payout >= t.pairs[j].payout
       /\ (t.pc = "done" /\ Signals(t) # {}) => t.outcome = "success"
       /\ t.outcome = "success" =>
            \E k \in Signals(t) :
              /\ t.data = t.results[k]
              /\ \A m \in Signals(t) :
                   /\ Conf(t.results[m]) <= Conf(t.results[k])
                   /\ Conf(t.results[m]) = Conf(t.results[k]) => k <= m

C10_Witness ==
  \E g \in SignalTasks :
    /\ gtask[g].outcome = "success"
    /\ Signals(gtask[g]) = {1, 2}
    /\ Conf(gtask[g].results[1]) = Conf(gtask[g].results[2])
    /\ gtask[g].data = gtask[g].results[1]
    /\ gtask[g].pairs[1].payout > gtask[g].pairs[2].payout

====
